---------------------------- MODULE Spec2Model ----------------------------
(***************************************************************************)
(* SeismicMesh: the MeshSizeFunction object (validated properties, build,  *)
(* the published query functions) and the gradient limiter wrapper hj.     *)
(*                                                                         *)
(* Numbers are binary floating-point values with PREC significant bits and *)
(* an unbounded exponent, each operation rounded to nearest, ties to even, *)
(* as IEEE-754 does for float64 (PREC = 53 there).  A value is a pair      *)
(* <<n, d>>: the rational n/d in lowest terms when d > 0, and the IEEE     *)
(* specials when d = 0: <<1,0>> = +inf, <<-1,0>> = -inf, <<0,0>> = nan.    *)
(* Zero is unsigned.                                                       *)
(***************************************************************************)
EXTENDS Integers, Sequences, FiniteSets, TLC

VARIABLES self, last, lim

vars == <<self, last, lim>>

---------------------------------------------------------------------------
(* Bounds of the model *)

PREC == 4
NZ == 1
NX == 2
LNZ == 2
LNX == 3

---------------------------------------------------------------------------
(* Floating-point arithmetic (numpy float64 / Python float operators) *)

RECURSIVE Pow2(_)
Pow2(k) == IF k = 0 THEN 1 ELSE 2 * Pow2(k - 1)

Abs(x) == IF x < 0 THEN -x ELSE x

Sign(x) == IF x < 0 THEN -1 ELSE IF x > 0 THEN 1 ELSE 0

RECURSIVE GCD(_, _)
GCD(a, b) == IF b = 0 THEN a ELSE GCD(b, a % b)

Norm(n, d) == LET g == GCD(Abs(n), Abs(d))
              IN  <<Sign(d) * (n \div g), Abs(d) \div g>>

Inf == <<1, 0>>
NegInf == <<-1, 0>>
NaN == <<0, 0>>
Zero == <<0, 1>>

IsNaN(a) == a[2] = 0 /\ a[1] = 0
IsFinite(a) == a[2] > 0

MantissaLow == Pow2(PREC - 1)
MantissaHigh == Pow2(PREC)

RECURSIVE RoundMag(_, _, _, _)
RoundMag(n, d, sn, sd) ==
    IF n < MantissaLow * d THEN RoundMag(2 * n, d, sn, 2 * sd)
    ELSE IF n >= MantissaHigh * d THEN RoundMag(n, 2 * d, 2 * sn, sd)
    ELSE LET m == n \div d
             r == n - m * d
             up == 2 * r > d \/ (2 * r = d /\ m % 2 = 1)
         IN  Norm((IF up THEN m + 1 ELSE m) * sn, sd)

Round(n, d) ==
    LET q == Norm(n, d)
    IN  IF q[1] = 0 THEN Zero
        ELSE IF q[1] > 0 THEN RoundMag(q[1], q[2], 1, 1)
        ELSE LET r == RoundMag(-q[1], q[2], 1, 1) IN <<-r[1], r[2]>>

Neg(a) == <<-a[1], a[2]>>

FMul(a, b) ==
    IF IsFinite(a) /\ IsFinite(b) THEN Round(a[1] * b[1], a[2] * b[2])
    ELSE <<Sign(a[1]) * Sign(b[1]), 0>>

FDiv(a, b) ==
    IF IsNaN(a) \/ IsNaN(b) THEN NaN
    ELSE IF IsFinite(a) /\ IsFinite(b)
         THEN IF b[1] = 0 THEN <<Sign(a[1]), 0>>
              ELSE Round(a[1] * b[2], a[2] * b[1])
    ELSE IF IsFinite(a) THEN Zero
    ELSE IF IsFinite(b) THEN <<a[1] * (IF b[1] < 0 THEN -1 ELSE 1), 0>>
    ELSE NaN

FAdd(a, b) ==
    IF IsFinite(a) /\ IsFinite(b)
    THEN Round(a[1] * b[2] + b[1] * a[2], a[2] * b[2])
    ELSE IF IsNaN(a) \/ IsNaN(b) THEN NaN
    ELSE IF IsFinite(a) THEN b
    ELSE IF IsFinite(b) THEN a
    ELSE IF a = b THEN a ELSE NaN

FSub(a, b) == FAdd(a, Neg(b))

Lt(a, b) ==
    IF IsNaN(a) \/ IsNaN(b) THEN FALSE
    ELSE IF IsFinite(a) /\ IsFinite(b) THEN a[1] * b[2] < b[1] * a[2]
    ELSE IF IsFinite(a) THEN b = Inf
    ELSE IF IsFinite(b) THEN a = NegInf
    ELSE a = NegInf /\ b = Inf

Gt(a, b) == Lt(b, a)

Le(a, b) == Lt(a, b) \/ (~IsNaN(a) /\ a = b)

(* Python's builtin min(a, b) and max(a, b): the first argument is kept unless
   the second compares strictly smaller (larger). *)
PyMin(a, b) == IF Lt(b, a) THEN b ELSE a

PyMax(a, b) == IF Gt(b, a) THEN b ELSE a

RECURSIVE SeqMax(_)
SeqMax(s) == IF Len(s) = 1 THEN s[1]
             ELSE PyMax(SeqMax(SubSeq(s, 1, Len(s) - 1)), s[Len(s)])

RECURSIVE SeqMin(_)
SeqMin(s) == IF Len(s) = 1 THEN s[1]
             ELSE PyMin(SeqMin(SubSeq(s, 1, Len(s) - 1)), s[Len(s)])

F(n) == <<n, 1>>

---------------------------------------------------------------------------
(* Python values and attribute lookup *)

None == [kind |-> "None"]

Str(s) == [t |-> "str", s |-> s]

(* An identifier as written in the class body: <<"__", base>> for a name with
   two leading underscores, <<"", base>> otherwise.  Inside the class body a
   name with two leading underscores is stored and looked up under the class
   name. *)
Mangle(id) == IF id[1] = "__" THEN <<"_MeshSizeFunction__", id[2]>> ELSE id

(* The methods the class statement defines, with their positional
   parameter counts. *)
ClassMethods ==
    { [name |-> Mangle(<<"", "build">>), params |-> 1],
      [name |-> Mangle(<<"", "plot">>), params |-> 2],
      [name |-> Mangle(<<"", "GetDomainMatrices">>), params |-> 1],
      [name |-> Mangle(<<"", "hj">>), params |-> 4],
      [name |-> Mangle(<<"__", "drectangle">>), params |-> 5],
      [name |-> Mangle(<<"__", "ReadVelocityModel">>), params |-> 1],
      [name |-> Mangle(<<"__", "CreateDomainVectors">>), params |-> 1],
      [name |-> Mangle(<<"__", "CreateDomainMatrices">>), params |-> 1] }

(* self.<id>(a1 .. a_nargs) evaluated inside the class body *)
BoundCall(id, nargs) ==
    LET ms == {m \in ClassMethods : m.name = Mangle(id)}
    IN  IF ms = {} THEN "AttributeError"
        ELSE IF \E m \in ms : m.params # nargs + 1 THEN "TypeError"
        ELSE "ok"

---------------------------------------------------------------------------
(* Grids: a sequence of NZ rows of NX values *)

Map2(Op(_, _, _), g) ==
    [i \in DOMAIN g |-> [j \in DOMAIN g[i] |-> Op(g[i][j], i, j)]]

GridAll(P(_), g) == \A i \in DOMAIN g : \A j \in DOMAIN g[i] : P(g[i][j])

---------------------------------------------------------------------------
(* Inputs *)

BboxInputs == { <<F(-8), F(0), F(0), F(8)>>,
                <<F(-8), F(0), F(-8), F(0), F(-8), F(0)>>,
                <<F(0), F(8), F(0)>>,
                <<F(-8), F(0), F(0), F(8), F(0), F(8), F(0)>> }

HminInputs == { F(3), F(8), F(0), NaN }

SegyInputs == { Str("testing.segy"), [t |-> "int", s |-> "0"] }

WlInputs == { F(0), F(1) }

FreqInputs == { F(0), F(3) }

HmaxInputs == { Inf, F(0), F(4) }

DtInputs == { F(0), F(1) }

CrMaxInputs == { <<7, 4>> }

GradeInputs == { F(0), F(1) }

Velocities == { F(5), F(10) }

(* A velocity model with one velocity in the columns up to k and another in
   the columns after it; k = nx gives the uniform model. *)
StepGrid(nz, nx, k, left, right) ==
    [i \in 1..nz |-> [j \in 1..nx |-> IF j <= k THEN left ELSE right]]

VelGrids ==
    { StepGrid(NZ, NX, k, left, right) :
        k \in 1..NX, left \in Velocities, right \in Velocities }

Points == { <<F(-4), F(4)>>, <<F(-8), F(4)>>, <<F(-9), F(4)>> }

---------------------------------------------------------------------------
(* Property setters of MeshSizeFunction *)

BboxAcceptsLoose(value) == Len(value) >= 3 /\ Len(value) <= 6

BboxAccepts(value) == Len(value) >= 4 /\ Len(value) <= 6

HminAccepts(value) == Gt(value, Zero)

SegyAccepts(value) == value.t = "str"

SetBbox(value) ==
    /\ IF BboxAccepts(value)
       THEN /\ self' = [self EXCEPT !.bbox = value]
            /\ last' = [op |-> "bbox", arg |-> value, exc |-> "none", ret |-> None]
       ELSE /\ self' = self
            /\ last' = [op |-> "bbox", arg |-> value, exc |-> "AssertionError",
                        ret |-> None]
    /\ UNCHANGED lim

SetHmin(value) ==
    /\ IF HminAccepts(value)
       THEN /\ self' = [self EXCEPT !.hmin = value]
            /\ last' = [op |-> "hmin", arg |-> value, exc |-> "none", ret |-> None]
       ELSE /\ self' = self
            /\ last' = [op |-> "hmin", arg |-> value, exc |-> "AssertionError",
                        ret |-> None]
    /\ UNCHANGED lim

SetSegy(value) ==
    /\ IF SegyAccepts(value)
       THEN /\ self' = [self EXCEPT !.segy = value]
            /\ last' = [op |-> "segy", arg |-> value, exc |-> "none", ret |-> None]
       ELSE /\ self' = self
            /\ last' = [op |-> "segy", arg |-> value, exc |-> "AssertionError",
                        ret |-> None]
    /\ UNCHANGED lim

(* hmax is stored as given *)
SetHmax(value) ==
    /\ self' = [self EXCEPT !.hmax = value]
    /\ last' = [op |-> "hmax", arg |-> value, exc |-> "none", ret |-> None]
    /\ UNCHANGED lim

(* The object a successful MeshSizeFunction(...) call returns: __init__ runs
   every setter in turn and the first rejected one aborts the construction. *)
Constructed(b, h, s, w, f, hx, d, c, g) ==
    /\ BboxAccepts(b)
    /\ HminAccepts(h)
    /\ SegyAccepts(s)
    /\ self = [bbox |-> b, hmin |-> h, segy |-> s, wl |-> w, freq |-> f,
               hmax |-> hx, dt |-> d, cr_max |-> c, grade |-> g,
               fh |-> None, fd |-> None]

---------------------------------------------------------------------------
(* The stages of MeshSizeFunction.build *)

WavelengthStageAlways(vp, hmin, wl, freq) ==
    LET Raw(v, i, j) == FDiv(v, FMul(freq, wl))
    IN  Map2(Raw, vp)

(* hh_m = np.zeros(shape=(_nz, _nx)) + _hmin, replaced by the wavelength
   estimate when _wl > 0 *)
WavelengthStage(vp, hmin, wl, freq) ==
    LET Raw(v, i, j) == FDiv(v, FMul(freq, wl))
        Floor(v, i, j) == FAdd(Zero, hmin)
    IN  IF Gt(wl, Zero) THEN Map2(Raw, vp) ELSE Map2(Floor, vp)

EnforceMinOff(hh, hmin) == hh

(* hh_m = np.where(hh_m < _hmin, _hmin, hh_m) *)
EnforceMin(hh, hmin) ==
    LET W(h, i, j) == IF Lt(h, hmin) THEN hmin ELSE h
    IN  Map2(W, hh)

(* if _hmax < np.inf: hh_m = np.where(hh_m > _hmax, _hmax, hh_m) *)
EnforceMax(hh, hmax) ==
    LET W(h, i, j) == IF Gt(h, hmax) THEN hmax ELSE h
    IN  IF Lt(hmax, Inf) THEN Map2(W, hh) ELSE hh

ClampStage(vp, hmin, hmax, wl, freq) ==
    EnforceMax(EnforceMin(WavelengthStage(vp, hmin, wl, freq), hmin), hmax)

(* cr_old = (_vp * _dt) / hh_m *)
CourantOf(vp, dt, hh) ==
    LET C(v, i, j) == FDiv(FMul(v, dt), hh[i][j])
    IN  Map2(C, vp)

(* dxn = (_vp * _dt) / _cr_max *)
DxnOf(vp, dt, cr_max) ==
    LET D(v, i, j) == FDiv(FMul(v, dt), cr_max)
    IN  Map2(D, vp)

CflStageOff(vp, dt, cr_max, hh) == hh

(* hh_m = np.where(cr_old > _cr_max, dxn, hh_m) when _dt > 0 *)
CflStage(vp, dt, cr_max, hh) ==
    LET cr_old == CourantOf(vp, dt, hh)
        dxn == DxnOf(vp, dt, cr_max)
        W(h, i, j) == IF Gt(cr_old[i][j], cr_max) THEN dxn[i][j] ELSE h
    IN  IF Gt(dt, Zero) THEN Map2(W, hh) ELSE hh

StrictlyPositiveLoose(hh) ==
    LET P(h) == ~Lt(h, Zero) IN GridAll(P, hh)

(* assert np.all(hh_m > 0.0) *)
StrictlyPositive(hh) ==
    LET P(h) == Gt(h, Zero) IN GridAll(P, hh)

(* np.linspace(a, b, n) is strictly ascending, which
   RegularGridInterpolator requires of every axis *)
Ascending(a, b, n) == n < 2 \/ Lt(a, b)

---------------------------------------------------------------------------
(* The gradient limiter: FastHJ.limgrad and its wrapper hj *)

(* The in-bounds 4-neighbours of the cell at flat index k of an nz-by-nx grid
   stored column by column *)
NeighborsOf(k, nz, nx) ==
    LET i == ((k - 1) % nz) + 1
        j == ((k - 1) \div nz) + 1
    IN  (IF i > 1 THEN <<k - 1>> ELSE <<>>) \o
        (IF i < nz THEN <<k + 1>> ELSE <<>>) \o
        (IF j > 1 THEN <<k - nz>> ELSE <<>>) \o
        (IF j < nx THEN <<k + nz>> ELSE <<>>)

(* h[neighbor] = min(h[neighbor], h[cell] + g * delta), one neighbour after
   the other *)
RECURSIVE RelaxCell(_, _, _, _)
RelaxCell(ffun, k, nbs, step) ==
    IF nbs = <<>> THEN ffun
    ELSE LET nb == Head(nbs)
             bound == FAdd(ffun[k], step)
             g == IF Lt(bound, ffun[nb]) THEN [ffun EXCEPT ![nb] = bound]
                  ELSE ffun
         IN  RelaxCell(g, k, Tail(nbs), step)

(* one pass over the grid, in place *)
RECURSIVE Sweep(_, _, _, _, _)
Sweep(ffun, k, nz, nx, step) ==
    IF k > Len(ffun) THEN ffun
    ELSE Sweep(RelaxCell(ffun, k, NeighborsOf(k, nz, nx), step),
               k + 1, nz, nx, step)

(* passes until one changes nothing or imax passes were made *)
RECURSIVE Passes(_, _, _, _, _, _)
Passes(ffun, iter, imax, nz, nx, step) ==
    IF iter >= imax
    THEN [ffun |-> ffun, converged |-> FALSE, passes |-> iter]
    ELSE LET g == Sweep(ffun, 1, nz, nx, step)
         IN  IF g = ffun
             THEN [ffun |-> ffun, converged |-> TRUE, passes |-> iter + 1]
             ELSE Passes(g, iter + 1, imax, nz, nx, step)

limgradRun(dims, elen, dfdx, imax, ffun) ==
    Passes(ffun, 0, imax, dims[1], dims[2], FMul(dfdx, elen))

limgrad(dims, elen, dfdx, imax, ffun) ==
    limgradRun(dims, elen, dfdx, imax, ffun).ffun

FlattenC(fun) ==
    LET nz == Len(fun)
        nx == Len(fun[1])
    IN  [k \in 1..(nz * nx) |-> fun[((k - 1) \div nx) + 1][((k - 1) % nx) + 1]]

(* fun.flatten("F") *)
FlattenF(fun) ==
    LET nz == Len(fun)
        nx == Len(fun[1])
    IN  [k \in 1..(nz * nx) |-> fun[((k - 1) % nz) + 1][((k - 1) \div nz) + 1]]

ReshapeC(tmp, nz, nx) ==
    [i \in 1..nz |-> [j \in 1..nx |-> tmp[(i - 1) * nx + j]]]

(* np.reshape(tmp, (_nz, _nx), "F") *)
ReshapeF(tmp, nz, nx) ==
    [i \in 1..nz |-> [j \in 1..nx |-> tmp[i + (j - 1) * nz]]]

hjReciprocal(fun, elen, grade, imax) ==
    LET nz == Len(fun)
        nx == Len(fun[1])
    IN  ReshapeF(limgrad(<<nz, nx, 1>>, elen, FDiv(F(1), grade), imax,
                         FlattenF(fun)), nz, nx)

hj(fun, elen, grade, imax) ==
    LET nz == Len(fun)
        nx == Len(fun[1])
    IN  ReshapeF(limgrad(<<nz, nx, 1>>, elen, grade, imax, FlattenF(fun)),
                 nz, nx)

(* whether the limgrad call hj makes stopped on a pass without change *)
hjConverged(fun, elen, grade, imax) ==
    limgradRun(<<Len(fun), Len(fun[1]), 1>>, elen, grade, imax,
               FlattenF(fun)).converged

---------------------------------------------------------------------------
(* MeshSizeFunction.build *)

(* hh_m = self.__hj(hh_m, width / _nx, _grade, 10000) when _grade > 0 *)
GradeStage(hh, width, nx, grade) ==
    IF Gt(grade, Zero) THEN hj(hh, FDiv(width, F(nx)), grade, 10000) ELSE hh

(* hh_m as build() computes it from the attributes s and the velocity model *)
SizeField(s, vp) ==
    CflStage(vp, s.dt, s.cr_max,
             GradeStage(ClampStage(vp, s.hmin, s.hmax, s.wl, s.freq),
                        SeqMax(s.bbox), Len(vp[1]), s.grade))

(* How build() leaves: "return" or the exception raised.  readable: segyio
   could open the file; vp: the velocity model the file holds. *)
BuildExit(s, readable, vp) ==
    IF BoundCall(<<"__", "ReadVelocityModel">>, 0) # "ok"
    THEN BoundCall(<<"__", "ReadVelocityModel">>, 0)
    ELSE IF ~readable THEN "IOError"
    ELSE IF Gt(s.grade, Zero) /\ BoundCall(<<"__", "hj">>, 4) # "ok"
    THEN BoundCall(<<"__", "hj">>, 4)
    ELSE IF BoundCall(<<"__", "CreateDomainVectors">>, 0) # "ok"
    THEN BoundCall(<<"__", "CreateDomainVectors">>, 0)
    ELSE IF ~StrictlyPositive(SizeField(s, vp)) THEN "AssertionError"
    ELSE IF ~(Ascending(SeqMin(s.bbox), Zero, Len(vp))
              /\ Ascending(Zero, SeqMax(s.bbox), Len(vp[1])))
    THEN "ValueError"
    ELSE "return"

(* The attributes vp, nz and nx, which build() assigns from the file it read
   and nothing else assigns, are the velocity model kept in last.arg. *)
build(readable, vp) ==
    /\ last' = [op |-> "build", ret |-> None,
                arg |-> IF readable THEN vp ELSE None,
                exc |-> LET exit == BuildExit(self, readable, vp)
                        IN  IF exit = "return" THEN "none" ELSE exit]
    /\ self' = [self EXCEPT
                  !.fh = IF last'.exc = "none"
                         THEN [kind |-> "lambda", hh_m |-> SizeField(self, vp)]
                         ELSE @,
                  !.fd = IF last'.exc = "none"
                         THEN [kind |-> "lambda", bbox |-> self.bbox] ELSE @]
    /\ UNCHANGED lim

---------------------------------------------------------------------------
(* The distance query *)

(* -min(min(min(-y1 + p[:, 1], y2 - p[:, 1]), -x1 + p[:, 0]), x2 - p[:, 0]) *)
drectangle(p, x1, x2, y1, y2) ==
    Neg(PyMin(PyMin(PyMin(FAdd(Neg(y1), p[2]), FSub(y2, p[2])),
                    FAdd(Neg(x1), p[1])),
              FSub(x2, p[1])))

(* self.fd(p): the lambda build stored looks drectangle up on self when it is
   called *)
CallFd(p) ==
    /\ last' = [op |-> "fd", arg |-> p,
                exc |-> IF self.fd = None THEN "TypeError"
                        ELSE IF BoundCall(<<"", "drectangle">>, 5) # "ok"
                        THEN BoundCall(<<"", "drectangle">>, 5)
                        ELSE "none",
                ret |-> IF self.fd # None
                           /\ BoundCall(<<"", "drectangle">>, 5) = "ok"
                        THEN drectangle(p, self.fd.bbox[1], self.fd.bbox[2],
                                        self.fd.bbox[3], self.fd.bbox[4])
                        ELSE None]
    /\ UNCHANGED <<self, lim>>

---------------------------------------------------------------------------
(* The object: construction, property assignments, build, queries *)

LimIdle == [pc |-> "idle"]

Init ==
    /\ \E b \in BboxInputs, h \in HminInputs, s \in SegyInputs,
          w \in WlInputs, f \in FreqInputs, hx \in HmaxInputs,
          d \in DtInputs, c \in CrMaxInputs, g \in GradeInputs :
          Constructed(b, h, s, w, f, hx, d, c, g)
    /\ last = [op |-> "__init__", arg |-> None, exc |-> "none", ret |-> None]
    /\ lim = LimIdle

Next ==
    \/ \E value \in BboxInputs : SetBbox(value)
    \/ \E value \in HminInputs : SetHmin(value)
    \/ \E value \in SegyInputs : SetSegy(value)
    \/ \E value \in HmaxInputs : SetHmax(value)
    \/ \E readable \in BOOLEAN :
          \E vp \in (IF readable THEN VelGrids ELSE {<<>>}) : build(readable, vp)
    \/ \E p \in Points : CallFd(p)

Spec == Init /\ [][Next]_vars

---------------------------------------------------------------------------
(* The gradient limiter on its own: hj applied to a field, applied again to
   its result, and applied to the same field with another rate *)

LimValues == { F(18), F(22) }

(* A field with the value v in the cells c1 and c2 and the value bg
   everywhere else; v = bg gives the uniform field. *)
SpikeField(nz, nx, c1, c2, bg, v) ==
    [i \in 1..nz |-> [j \in 1..nx |-> IF <<i, j>> \in {c1, c2} THEN v ELSE bg]]

LimFields ==
    { SpikeField(LNZ, LNX, c1, c2, bg, v) :
        c1 \in (1..LNZ) \X (1..LNX), c2 \in (1..LNZ) \X (1..LNX),
        bg \in LimValues, v \in LimValues }

ElenInputs == { F(1), F(2) }

RateInputs == { <<1, 2>>, F(1), F(4) }

ImaxInputs == { 1, 10000 }

NoObject == [kind |-> "None"]

HjCall ==
    /\ lim.pc = "input"
    /\ lim' = [lim EXCEPT
                 !.pc = "limited",
                 !.out = hj(lim.fun, lim.elen, lim.grade, lim.imax),
                 !.converged = hjConverged(lim.fun, lim.elen, lim.grade,
                                           lim.imax)]
    /\ UNCHANGED <<self, last>>

HjAgain ==
    /\ lim.pc = "limited"
    /\ lim' = [lim EXCEPT
                 !.pc = "relimited",
                 !.out2 = hj(lim.out, lim.elen, lim.grade, lim.imax),
                 !.converged2 = hjConverged(lim.out, lim.elen, lim.grade,
                                            lim.imax)]
    /\ UNCHANGED <<self, last>>

HjRate(grade2) ==
    /\ lim.pc = "limited"
    /\ lim' = [lim EXCEPT
                 !.pc = "rated",
                 !.grade2 = grade2,
                 !.out2 = hj(lim.fun, lim.elen, grade2, lim.imax),
                 !.converged2 = hjConverged(lim.fun, lim.elen, grade2,
                                            lim.imax)]
    /\ UNCHANGED <<self, last>>

InitHJ ==
    /\ self = NoObject
    /\ last = [op |-> "none", arg |-> None, exc |-> "none", ret |-> None]
    /\ \E fun \in LimFields, elen \in ElenInputs, grade \in RateInputs,
          imax \in ImaxInputs :
          lim = [pc |-> "input", fun |-> fun, elen |-> elen, grade |-> grade,
                 imax |-> imax, out |-> <<>>, converged |-> FALSE,
                 grade2 |-> grade, out2 |-> <<>>, converged2 |-> FALSE]

NextHJ ==
    \/ HjCall
    \/ HjAgain
    \/ \E grade2 \in RateInputs : HjRate(grade2)

SpecHJ == InitHJ /\ [][NextHJ]_vars

---------------------------------------------------------------------------
(* Properties of build() *)

Cells(g) == { <<i, j>> : i \in DOMAIN g, j \in DOMAIN g[1] }

(* build() was the last call and it returned: self holds the attributes it
   read, last.arg the velocity model and self.fh the field it published *)
Built == last.op = "build" /\ last.exc = "none"

PreCfl ==
    GradeStage(ClampStage(last.arg, self.hmin, self.hmax, self.wl, self.freq),
               SeqMax(self.bbox), Len(last.arg[1]), self.grade)

CflTriggered(c) ==
    /\ Gt(self.dt, Zero)
    /\ Gt(CourantOf(last.arg, self.dt, PreCfl)[c[1]][c[2]], self.cr_max)

WithinBounds(c) ==
    /\ Le(self.hmin, self.fh.hh_m[c[1]][c[2]])
    /\ Lt(self.hmax, Inf) => Le(self.fh.hh_m[c[1]][c[2]], self.hmax)

(* C1 as stated: after a build() that completes, every cell whose CFL
   replacement was not triggered has hmin <= h, and h <= hmax when hmax is
   finite, whatever hmax is. *)
C1_Original ==
    Built => \A c \in Cells(last.arg) : ~CflTriggered(c) => WithinBounds(c)

(* C1 amended: the same bounds hold after every build() that completes with
   hmin <= hmax. *)
C1_Amended ==
    (Built /\ Le(self.hmin, self.hmax)) =>
        \A c \in Cells(last.arg) : ~CflTriggered(c) => WithinBounds(c)

C1_Witness ==
    /\ Built
    /\ Lt(self.hmax, Inf)
    /\ Le(self.hmin, self.hmax)
    /\ \E c \in Cells(last.arg) : CflTriggered(c)
    /\ \E c \in Cells(last.arg) :
          ~CflTriggered(c) /\ self.fh.hh_m[c[1]][c[2]] = self.hmin

Courant(c) ==
    FDiv(FMul(last.arg[c[1]][c[2]], self.dt), self.fh.hh_m[c[1]][c[2]])

(* a <= b * (1 + 4 * 2^-PREC), for finite a and b *)
LeRounded(a, b) ==
    /\ IsFinite(a)
    /\ IsFinite(b)
    /\ a[1] * b[2] * MantissaHigh <= b[1] * a[2] * (MantissaHigh + 4)

RawSize(c) == FDiv(last.arg[c[1]][c[2]], FMul(self.freq, self.wl))

Larger(a, b) == IF Lt(a, b) THEN b ELSE a

(* C4: with hmax infinite, grade = 0 and dt = 0, a build() that completes
   leaves h = max(hmin, velocity / (freq * wl)) in every cell when wl > 0 and
   h = hmin in every cell when wl <= 0; when some cell has
   velocity / (freq * wl) <= hmin, the smallest value of the field is hmin. *)
C4_Direct ==
    (Built /\ self.hmax = Inf /\ self.grade = Zero /\ self.dt = Zero) =>
        /\ \A c \in Cells(last.arg) :
              self.fh.hh_m[c[1]][c[2]] =
                  IF Gt(self.wl, Zero) THEN Larger(self.hmin, RawSize(c))
                  ELSE self.hmin
        /\ (Gt(self.wl, Zero)
            /\ \E c \in Cells(last.arg) : Le(RawSize(c), self.hmin)) =>
              /\ \A c \in Cells(last.arg) :
                    Le(self.hmin, self.fh.hh_m[c[1]][c[2]])
              /\ \E c \in Cells(last.arg) :
                    self.fh.hh_m[c[1]][c[2]] = self.hmin

C4_Witness ==
    /\ Built
    /\ self.hmax = Inf /\ self.grade = Zero /\ self.dt = Zero
    /\ Gt(self.wl, Zero)
    /\ \E c \in Cells(last.arg) : Lt(RawSize(c), self.hmin)
    /\ \E c \in Cells(last.arg) :
          Gt(RawSize(c), self.hmin) /\ IsFinite(RawSize(c))

---------------------------------------------------------------------------
(* Properties of the validated attributes *)

ValidAttributes ==
    /\ Len(self.bbox) >= 4
    /\ Len(self.bbox) <= 6
    /\ Gt(self.hmin, Zero)
    /\ self.segy.t = "str"

(* the assignment made by this step is one the claim calls invalid *)
InvalidAssignment ==
    \/ last'.op = "bbox" /\ (Len(last'.arg) < 4 \/ Len(last'.arg) > 6)
    \/ last'.op = "hmin" /\ Le(last'.arg, Zero)
    \/ last'.op = "segy" /\ last'.arg.t # "str"

(* C5: every object state has 4 <= len(bbox) <= 6, hmin > 0 and segy a
   string, and an assignment of a bbox with fewer than 4 or more than 6
   values, of an hmin <= 0 or of a non-string segy raises an error and leaves
   the object unchanged. *)
C5_Validated ==
    /\ []ValidAttributes
    /\ [][InvalidAssignment =>
            (last'.exc = "AssertionError" /\ self' = self)]_vars

C5_Witness ==
    /\ last.op = "bbox"
    /\ Len(last.arg) = 7
    /\ last.exc = "AssertionError"
    /\ self.fh.kind = "lambda"

---------------------------------------------------------------------------
(* Properties of what build() publishes *)

AllPositive(hh) ==
    \A c \in Cells(hh) : Gt(hh[c[1]][c[2]], Zero)

(* the step is a build() whose stages all ran: the file was read and the
   gradation call did not raise *)
StagesRan ==
    /\ last'.op = "build"
    /\ last'.exc \notin {"IOError", "AttributeError", "TypeError"}

(* C6: build() sets fh and fd only when every entry of the final field is
   strictly positive; when the stages leave an entry that is not, build()
   raises an AssertionError; a build() that raises leaves fh and fd as they
   were. *)
C6_Publish ==
    [][(last'.op = "build") =>
         /\ last'.exc = "none" =>
               (self'.fh.kind = "lambda" /\ AllPositive(self'.fh.hh_m))
         /\ last'.exc # "none" => (self'.fh = self.fh /\ self'.fd = self.fd)
         /\ StagesRan =>
               \A hh \in {SizeField(self, last'.arg)} :
                   ~AllPositive(hh) => last'.exc = "AssertionError"]_vars

C6_Witness ==
    /\ last.op = "build"
    /\ last.exc = "AssertionError"
    /\ self.fh.kind = "lambda"
    /\ self.fd.kind = "lambda"

(* C10 as stated: when grade > 0, the gradation call build() makes completes
   without an error, and its result is pointwise <= the clamped field. *)
C10_Claim ==
    (last.op = "build" /\ last.exc # "IOError" /\ Gt(self.grade, Zero)) =>
        /\ last.exc \notin {"AttributeError", "TypeError"}
        /\ (last.exc = "none" /\ ~Gt(self.dt, Zero)) =>
              \A c \in Cells(last.arg) :
                  Le(self.fh.hh_m[c[1]][c[2]],
                     ClampStage(last.arg, self.hmin, self.hmax, self.wl,
                                self.freq)[c[1]][c[2]])

---------------------------------------------------------------------------
(* Properties of the distance query *)

Inside(p, b) ==
    Lt(b[1], p[1]) /\ Lt(p[1], b[2]) /\ Lt(b[3], p[2]) /\ Lt(p[2], b[4])

Outside(p, b) ==
    Lt(p[1], b[1]) \/ Lt(b[2], p[1]) \/ Lt(p[2], b[3]) \/ Lt(b[4], p[2])

Larger4(a, b, c, d) == Larger(Larger(a, b), Larger(c, d))

(* C7 as stated: once build() has set fd, fd(p) returns the largest of the
   four signed distances to the sides of the rectangle
   (bbox[0], bbox[1], bbox[2], bbox[3]): negative inside, positive outside,
   zero on the boundary. *)
C7_Claim ==
    (last.op = "fd" /\ self.fd.kind = "lambda") =>
        /\ last.exc = "none"
        /\ LET b == self.fd.bbox
               p == last.arg
           IN  /\ last.ret = Larger4(FSub(b[1], p[1]), FSub(p[1], b[2]),
                                     FSub(b[3], p[2]), FSub(p[2], b[4]))
               /\ Inside(p, b) => Lt(last.ret, Zero)
               /\ Outside(p, b) => Gt(last.ret, Zero)
               /\ (~Inside(p, b) /\ ~Outside(p, b)) => last.ret = Zero

---------------------------------------------------------------------------
(* Properties of the gradient limiter *)

(* pairs of 4-adjacent cells of a grid, in both orders, without wraparound *)
Adjacent(g) ==
    { p \in Cells(g) \X Cells(g) :
        \/ p[1][1] = p[2][1] /\ Abs(p[1][2] - p[2][2]) = 1
        \/ p[1][2] = p[2][2] /\ Abs(p[1][1] - p[2][1]) = 1 }

At(g, c) == g[c[1]][c[2]]

FAbs(a) == <<Abs(a[1]), a[2]>>

Limited == lim.pc = "limited" /\ lim.converged

(* C3 as stated: when the sweep stopped on a pass without change,
   |h(a) - h(b)| <= g * D for every pair of adjacent cells. *)
C3_Original ==
    Limited =>
        \A p \in Adjacent(lim.out) :
            Le(FAbs(FSub(At(lim.out, p[1]), At(lim.out, p[2]))),
               FMul(lim.grade, lim.elen))

(* C3 amended: when the sweep stopped on a pass without change, every cell
   is at most its neighbour plus g * D as floating-point arithmetic rounds
   that sum: h(b) <= fl(h(a) + fl(g * D)) for every pair of adjacent
   cells. *)
C3_Amended ==
    Limited =>
        \A p \in Adjacent(lim.out) :
            Le(At(lim.out, p[2]),
               FAdd(At(lim.out, p[1]), FMul(lim.grade, lim.elen)))

C3_Witness ==
    /\ Limited
    /\ lim.out # lim.fun
    /\ \E c \in Cells(lim.out) : At(lim.out, c) = At(lim.fun, c)

(* C8: the limiter applied to the output of a run that stopped on a pass
   without change, with the same spacing and rate, returns that output. *)
C8_Idempotent ==
    (lim.pc = "relimited" /\ lim.converged) => lim.out2 = lim.out

C8_Witness ==
    /\ lim.pc = "relimited"
    /\ lim.converged
    /\ lim.out # lim.fun
    /\ lim.out2 = lim.out

(* C9: for the same field and spacing and rates g1 <= g2, the output of a
   run with g2 that stopped on a pass without change is pointwise >= that of
   such a run with g1. *)
C9_Monotone ==
    (lim.pc = "rated" /\ lim.converged /\ lim.converged2
     /\ Le(lim.grade, lim.grade2)) =>
        \A c \in Cells(lim.out) : Le(At(lim.out, c), At(lim.out2, c))

C9_Witness ==
    /\ lim.pc = "rated"
    /\ lim.converged /\ lim.converged2
    /\ Lt(lim.grade, lim.grade2)
    /\ lim.out # lim.fun
    /\ \E c \in Cells(lim.out) : Lt(At(lim.out, c), At(lim.out2, c))

===========================================================================
